---- MODULE Spec2Model ----
(***************************************************************************)
(* Model of roles/server/library/file_dir.py: the file_dir module that     *)
(* converges a path to one of the states file / directory / absent.        *)
(*                                                                         *)
(* The filesystem is a tree of entries below a root directory (the         *)
(* tmp_path of the tests).  A path is the sequence of its segments below   *)
(* the root; <<>> is the root itself, which is always a directory.         *)
(***************************************************************************)
EXTENDS Integers, Sequences, FiniteSets, TLC

\* Deepest path of the modelled tree (segments below the root).
MaxDepth == 3
\* Longest run of consecutive calls with one and the same request.
MaxRun == 3

\* Segment names.  The modelled tree is the chain a, a/a, a/a/a, ... down to
\* MaxDepth, with a sibling b next to every entry of the chain but the
\* deepest: "b" entries are leaves (files or empty directories).
Names == {"a", "b"}

\* class State(enum.Enum)
FILE == "file"
DIRECTORY == "directory"
ABSENT == "absent"
State == {FILE, DIRECTORY, ABSENT}

RECURSIVE PathsOfLen(_)
PathsOfLen(n) ==
    IF n = 0 THEN {<<>>}
    ELSE {Append(p, x) : p \in {q \in PathsOfLen(n - 1) : n = 1 \/ q[n - 1] = "a"},
                         x \in IF n < MaxDepth THEN Names ELSE {"a"}}

\* Every path below the root, the values of params["path"].
Paths == UNION {PathsOfLen(n) : n \in 1..MaxDepth}

\* Path.parent
Parent(p) == SubSeq(p, 1, Len(p) - 1)

IsPrefix(q, p) == Len(q) <= Len(p) /\ SubSeq(p, 1, Len(q)) = q

\* Proper ancestors of p below the root, and the entries below p.
Ancestors(p) == {SubSeq(p, 1, k) : k \in 1..(Len(p) - 1)}
Descendants(p) == {q \in Paths : Len(q) > Len(p) /\ IsPrefix(p, q)}

\* The entry at p in filesystem f; the root is a directory.
Kind(f, p) == IF p = <<>> THEN DIRECTORY ELSE f[p]

\* An entry exists only inside a directory.
WellFormed(f) == \A p \in Paths : f[p] # ABSENT => Kind(f, Parent(p)) = DIRECTORY

FileSystems == {f \in [Paths -> State] : WellFormed(f)}

OK == "OK"
Done(f) == [err |-> OK, fs |-> f]
Raise(e, f) == [err |-> e, fs |-> f]

(***************************************************************************)
(* Filesystem primitives, with the errno the kernel reports.               *)
(***************************************************************************)

\* Resolution of the directory components of p: the first component that is
\* not a directory gives ENOENT (missing) or ENOTDIR (a file).
RECURSIVE WalkFrom(_, _, _)
WalkFrom(f, p, k) ==
    IF k >= Len(p) THEN OK
    ELSE LET c == Kind(f, SubSeq(p, 1, k))
         IN  IF c = DIRECTORY THEN WalkFrom(f, p, k + 1)
             ELSE IF c = ABSENT THEN "ENOENT" ELSE "ENOTDIR"

Walk(f, p) == WalkFrom(f, p, 1)

\* os.stat
os_stat(f, p) ==
    LET w == Walk(f, p)
    IN  IF w # OK THEN w
        ELSE IF Kind(f, p) = ABSENT THEN "ENOENT" ELSE OK

\* Path.exists / Path.is_dir: ENOENT and ENOTDIR mean False.
Path_exists(f, p) == os_stat(f, p) = OK
Path_is_dir(f, p) == os_stat(f, p) = OK /\ Kind(f, p) = DIRECTORY

\* os.mkdir
os_mkdir(f, p) ==
    IF p = <<>> THEN Raise("EEXIST", f)
    ELSE LET w == Walk(f, p)
         IN  IF w # OK THEN Raise(w, f)
             ELSE IF Kind(f, p) # ABSENT THEN Raise("EEXIST", f)
             ELSE Done([f EXCEPT ![p] = DIRECTORY])

\* Path.mkdir(parents, exist_ok) with parents ignored: missing parents are
\* always created.
RECURSIVE Path_mkdir_always_parents(_, _, _, _)
Path_mkdir_always_parents(f, p, parents, exist_ok) ==
    LET r == os_mkdir(f, p)
    IN  IF r.err = OK THEN r
        ELSE IF r.err = "ENOENT" THEN
            IF p = <<>> THEN r
            ELSE LET up == Path_mkdir_always_parents(f, Parent(p), TRUE, TRUE)
                 IN  IF up.err # OK THEN up
                     ELSE Path_mkdir_always_parents(up.fs, p, FALSE, exist_ok)
        ELSE IF ~exist_ok \/ ~Path_is_dir(f, p) THEN r
        ELSE Done(f)

\* Path.mkdir(parents, exist_ok) that never creates a parent.
Path_mkdir_no_parents(f, p, parents, exist_ok) ==
    LET r == os_mkdir(f, p)
    IN  IF r.err = OK THEN r
        ELSE IF r.err = "ENOENT" THEN r
        ELSE IF ~exist_ok \/ ~Path_is_dir(f, p) THEN r
        ELSE Done(f)

\* Path.mkdir(parents, exist_ok) with exist_ok ignored: an existing
\* directory is an error.
RECURSIVE Path_mkdir_no_exist_ok(_, _, _, _)
Path_mkdir_no_exist_ok(f, p, parents, exist_ok) ==
    LET r == os_mkdir(f, p)
    IN  IF r.err = OK THEN r
        ELSE IF r.err = "ENOENT" THEN
            IF ~parents \/ p = <<>> THEN r
            ELSE LET up == Path_mkdir_no_exist_ok(f, Parent(p), TRUE, TRUE)
                 IN  IF up.err # OK /\ up.err # "EEXIST" THEN up
                     ELSE Path_mkdir_no_exist_ok(up.fs, p, FALSE, exist_ok)
        ELSE r

\* Path.mkdir(parents, exist_ok): os.mkdir; on FileNotFoundError create the
\* parents (when asked to) and retry; on any other OSError succeed only if
\* exist_ok and the path is a directory.
RECURSIVE Path_mkdir(_, _, _, _)
Path_mkdir(f, p, parents, exist_ok) ==
    LET r == os_mkdir(f, p)
    IN  IF r.err = OK THEN r
        ELSE IF r.err = "ENOENT" THEN
            IF ~parents \/ p = <<>> THEN r
            ELSE LET up == Path_mkdir(f, Parent(p), TRUE, TRUE)
                 IN  IF up.err # OK THEN up
                     ELSE Path_mkdir(up.fs, p, FALSE, exist_ok)
        ELSE IF ~exist_ok \/ ~Path_is_dir(f, p) THEN r
        ELSE Done(f)

\* Path.touch() that updates an existing entry but never creates one.
Path_touch_no_create(f, p) ==
    IF os_stat(f, p) = OK THEN Done(f)
    ELSE IF Walk(f, p) # OK THEN Raise(Walk(f, p), f)
    ELSE Done(f)

\* Path.touch(): os.utime on an existing entry, else os.open(O_CREAT).
Path_touch(f, p) ==
    IF os_stat(f, p) = OK THEN Done(f)
    ELSE IF Walk(f, p) # OK THEN Raise(Walk(f, p), f)
    ELSE Done([f EXCEPT ![p] = FILE])

\* shutil.rmtree called on the parent of the path: it removes the siblings
\* of the path too.
shutil_rmtree_parent(f, p) ==
    IF os_stat(f, p) # OK THEN Raise(os_stat(f, p), f)
    ELSE IF Kind(f, p) # DIRECTORY THEN Raise("ENOTDIR", f)
    ELSE Done([q \in Paths |-> IF IsPrefix(Parent(p), q) /\ q # Parent(p)
                                THEN ABSENT ELSE f[q]])

\* shutil.rmtree that removes the named directory only (os.rmdir on a
\* directory that may have entries).
shutil_rmtree_top_only(f, p) ==
    IF os_stat(f, p) # OK THEN Raise(os_stat(f, p), f)
    ELSE IF Kind(f, p) # DIRECTORY THEN Raise("ENOTDIR", f)
    ELSE IF \E q \in Descendants(p) : f[q] # ABSENT THEN Raise("ENOTEMPTY", f)
    ELSE Done([f EXCEPT ![p] = ABSENT])

\* shutil.rmtree(path, ignore_errors=False): removes the directory and
\* everything below it.
shutil_rmtree(f, p) ==
    IF os_stat(f, p) # OK THEN Raise(os_stat(f, p), f)
    ELSE IF Kind(f, p) # DIRECTORY THEN Raise("ENOTDIR", f)
    ELSE Done([q \in Paths |-> IF IsPrefix(p, q) THEN ABSENT ELSE f[q]])

\* Path.unlink that reports success without removing the file.
Path_unlink_keep(f, p, missing_ok) ==
    IF os_stat(f, p) = "ENOENT" THEN (IF missing_ok THEN Done(f) ELSE Raise("ENOENT", f))
    ELSE IF os_stat(f, p) # OK THEN Raise(os_stat(f, p), f)
    ELSE IF Kind(f, p) = DIRECTORY THEN Raise("EISDIR", f)
    ELSE Done(f)

\* Path.unlink with missing_ok ignored: a missing file is an error.
Path_unlink_strict(f, p, missing_ok) ==
    IF os_stat(f, p) # OK THEN Raise(os_stat(f, p), f)
    ELSE IF Kind(f, p) = DIRECTORY THEN Raise("EISDIR", f)
    ELSE Done([f EXCEPT ![p] = ABSENT])

\* Path.unlink(missing_ok): only FileNotFoundError is forgiven.
Path_unlink(f, p, missing_ok) ==
    IF os_stat(f, p) = "ENOENT" THEN (IF missing_ok THEN Done(f) ELSE Raise("ENOENT", f))
    ELSE IF os_stat(f, p) # OK THEN Raise(os_stat(f, p), f)
    ELSE IF Kind(f, p) = DIRECTORY THEN Raise("EISDIR", f)
    ELSE Done([f EXCEPT ![p] = ABSENT])

(***************************************************************************)
(* file_dir.py                                                             *)
(***************************************************************************)

\* get_current_state with the is_dir test inverted.
get_current_state_inverted(f, path) ==
    IF Path_exists(f, path)
    THEN IF Path_is_dir(f, path) THEN FILE ELSE DIRECTORY
    ELSE ABSENT

\* get_current_state without the is_dir test: every entry is a FILE.
get_current_state_no_is_dir(f, path) ==
    IF Path_exists(f, path) THEN FILE ELSE ABSENT

get_current_state(f, path) ==
    IF Path_exists(f, path)
    THEN IF Path_is_dir(f, path) THEN DIRECTORY ELSE FILE
    ELSE ABSENT

\* init_diff that fills in the state fields without comparing the states.
init_diff_always_state(path, next_state, current_state) ==
    [before |-> [path |-> path, state |-> current_state],
     after  |-> [path |-> path, state |-> next_state]]

init_diff(path, next_state, current_state) ==
    IF current_state # next_state
    THEN [before |-> [path |-> path, state |-> current_state],
          after  |-> [path |-> path, state |-> next_state]]
    ELSE [before |-> [path |-> path], after |-> [path |-> path]]

\* get_check_mode_result that reports changed=False.
get_check_mode_result_unchanged(diff, path) ==
    [kind |-> "result", changed |-> FALSE, diff |-> diff, path |-> path]

get_check_mode_result(diff, path) ==
    [kind |-> "result", changed |-> TRUE, diff |-> diff, path |-> path]

\* The dict an ensure_* function returns.
Result(path, changed, diff) ==
    [kind |-> "result", changed |-> changed, diff |-> diff, path |-> path]

\* module.fail_json(msg=...): the call ends here, no result is returned.
fail_json(op, path, err) == [kind |-> "fail", msg |-> <<op, path, err>>]

\* file.touch() when the operating system refuses to create the file (name
\* too long, no space, no permission): an OSError, nothing created.
Path_touch_io_error(f, p) == Raise("EIO", f)

\* ensure_file from the state it inspected (lines 136-157), on the
\* filesystem f as it is when the call goes on; io_error says that the
\* operating system refuses the file creation of line 143.
ensure_file_step(f, path, nested, check_mode, current_state, io_error) ==
    LET diff == init_diff(path, FILE, current_state)
    IN  IF current_state = ABSENT THEN
            IF check_mode THEN [ret |-> get_check_mode_result(diff, path), fs |-> f]
            ELSE LET m == Path_mkdir(f, Parent(path), nested, TRUE)
                     t == IF m.err # OK THEN m
                          ELSE IF io_error THEN Path_touch_io_error(m.fs, path)
                          ELSE Path_touch(m.fs, path)
                 IN  IF t.err = OK
                     THEN [ret |-> Result(path, TRUE, diff), fs |-> t.fs]
                     ELSE [ret |-> fail_json("create file", path, t.err), fs |-> t.fs]
        ELSE IF current_state = DIRECTORY THEN
            [ret |-> fail_json("create file", path, "path is directory"), fs |-> f]
        ELSE [ret |-> Result(path, FALSE, diff), fs |-> f]

ensure_file(f, path, nested, check_mode) ==
    ensure_file_step(f, path, nested, check_mode, get_current_state(f, path), FALSE)

\* ensure_directory without the check_mode test.
ensure_directory_no_check_mode(f, path, nested, check_mode) ==
    LET current_state == get_current_state(f, path)
        diff == init_diff(path, DIRECTORY, current_state)
    IN  IF current_state = ABSENT THEN
            LET m == Path_mkdir(f, path, nested, TRUE)
            IN  IF m.err = OK
                THEN [ret |-> Result(path, TRUE, diff), fs |-> m.fs]
                ELSE [ret |-> fail_json("create directory", path, m.err), fs |-> m.fs]
        ELSE [ret |-> Result(path, FALSE, diff), fs |-> f]

\* ensure_directory that treats a FILE at the path as ensure_file treats a
\* DIRECTORY: a fatal conflict.
ensure_directory_file_conflict(f, path, nested, check_mode) ==
    LET current_state == get_current_state(f, path)
        diff == init_diff(path, DIRECTORY, current_state)
    IN  IF current_state = ABSENT THEN
            IF check_mode THEN [ret |-> get_check_mode_result(diff, path), fs |-> f]
            ELSE LET m == Path_mkdir(f, path, nested, TRUE)
                 IN  IF m.err = OK
                     THEN [ret |-> Result(path, TRUE, diff), fs |-> m.fs]
                     ELSE [ret |-> fail_json("create directory", path, m.err), fs |-> m.fs]
        ELSE IF current_state = FILE THEN
            [ret |-> fail_json("create directory", path, "path is file"), fs |-> f]
        ELSE [ret |-> Result(path, FALSE, diff), fs |-> f]

\* ensure_directory that reports the failure also after a creation that
\* succeeded (the except branch taken as a finally).
ensure_directory_step_fail_after_create(f, path, nested, check_mode, current_state) ==
    LET diff == init_diff(path, DIRECTORY, current_state)
    IN  IF current_state = ABSENT THEN
            IF check_mode THEN [ret |-> get_check_mode_result(diff, path), fs |-> f]
            ELSE LET m == Path_mkdir(f, path, nested, TRUE)
                 IN  [ret |-> fail_json("create directory", path, m.err), fs |-> m.fs]
        ELSE [ret |-> Result(path, FALSE, diff), fs |-> f]

\* ensure_directory from the state it inspected (lines 167-182), on the
\* filesystem f as it is when the call goes on.
ensure_directory_step(f, path, nested, check_mode, current_state) ==
    LET diff == init_diff(path, DIRECTORY, current_state)
    IN  IF current_state = ABSENT THEN
            IF check_mode THEN [ret |-> get_check_mode_result(diff, path), fs |-> f]
            ELSE LET m == Path_mkdir(f, path, nested, TRUE)
                 IN  IF m.err = OK
                     THEN [ret |-> Result(path, TRUE, diff), fs |-> m.fs]
                     ELSE [ret |-> fail_json("create directory", path, m.err), fs |-> m.fs]
        ELSE [ret |-> Result(path, FALSE, diff), fs |-> f]

ensure_directory(f, path, nested, check_mode) ==
    ensure_directory_step(f, path, nested, check_mode, get_current_state(f, path))

\* ensure_absent whose second branch is a plain else: it also unlinks a
\* path that is ABSENT.
ensure_absent_else_unlink(f, path, check_mode) ==
    LET current_state == get_current_state(f, path)
        diff == init_diff(path, ABSENT, current_state)
    IN  IF current_state = DIRECTORY THEN
            IF check_mode THEN [ret |-> get_check_mode_result(diff, path), fs |-> f]
            ELSE LET r == shutil_rmtree(f, path)
                 IN  IF r.err = OK
                     THEN [ret |-> Result(path, TRUE, diff), fs |-> r.fs]
                     ELSE [ret |-> fail_json("delete directory", path, r.err), fs |-> r.fs]
        ELSE
            IF check_mode THEN [ret |-> get_check_mode_result(diff, path), fs |-> f]
            ELSE LET u == Path_unlink(f, path, TRUE)
                 IN  IF u.err = OK
                     THEN [ret |-> Result(path, TRUE, diff), fs |-> u.fs]
                     ELSE [ret |-> fail_json("delete file", path, u.err), fs |-> u.fs]

\* ensure_absent from the state it inspected (lines 192-217), on the
\* filesystem f as it is when the call goes on.
ensure_absent_step(f, path, check_mode, current_state) ==
    LET diff == init_diff(path, ABSENT, current_state)
    IN  IF current_state = DIRECTORY THEN
            IF check_mode THEN [ret |-> get_check_mode_result(diff, path), fs |-> f]
            ELSE LET r == shutil_rmtree(f, path)
                 IN  IF r.err = OK
                     THEN [ret |-> Result(path, TRUE, diff), fs |-> r.fs]
                     ELSE [ret |-> fail_json("delete directory", path, r.err), fs |-> r.fs]
        ELSE IF current_state = FILE THEN
            IF check_mode THEN [ret |-> get_check_mode_result(diff, path), fs |-> f]
            ELSE LET u == Path_unlink(f, path, TRUE)
                 IN  IF u.err = OK
                     THEN [ret |-> Result(path, TRUE, diff), fs |-> u.fs]
                     ELSE [ret |-> fail_json("delete file", path, u.err), fs |-> u.fs]
        ELSE [ret |-> Result(path, FALSE, diff), fs |-> f]

ensure_absent(f, path, check_mode) ==
    ensure_absent_step(f, path, check_mode, get_current_state(f, path))

\* run_proper_handler whose directory branch never matches: the request
\* falls through to the default result.
run_proper_handler_no_directory(f, p, check_mode) ==
    IF p.state = FILE THEN ensure_file(f, p.path, p.nested, check_mode)
    ELSE IF p.state = ABSENT THEN ensure_absent(f, p.path, check_mode)
    ELSE [ret |-> [kind |-> "result", changed |-> FALSE], fs |-> f]

run_proper_handler(f, p, check_mode) ==
    IF p.state = FILE THEN ensure_file(f, p.path, p.nested, check_mode)
    ELSE IF p.state = DIRECTORY THEN ensure_directory(f, p.path, p.nested, check_mode)
    ELSE IF p.state = ABSENT THEN ensure_absent(f, p.path, check_mode)
    ELSE [ret |-> [kind |-> "result", changed |-> FALSE], fs |-> f]

(***************************************************************************)
(* State: the filesystem, and the record of the calls made on it.          *)
(***************************************************************************)
VARIABLES
    fs,          \* the filesystem
    params,      \* module.params of the last call
    check_mode,  \* module.check_mode of the last call
    ret,         \* what the last call ended in: a result or a failure
    pre,         \* the filesystem the last call started from
    run,         \* number of consecutive calls, the last included, with this request
    first,       \* outcome of the first call of this run, and the filesystem it left
    calls        \* the calls of the module that are under way at the same time

vars == <<fs, params, check_mode, ret, pre, run, first, calls>>

\* Two invocations of the module by independent processes.
Callers == {1, 2}
Idle == [pc |-> "idle"]

NoCall == [kind |-> "none"]

Init ==
    /\ fs \in FileSystems
    /\ params = [path |-> <<>>, state |-> "none", nested |-> FALSE]
    /\ check_mode = FALSE
    /\ ret = NoCall
    /\ pre = fs
    /\ run = 0
    /\ first = [ret |-> NoCall, fs |-> fs]
    /\ calls = [c \in Callers |-> Idle]

\* One call of run_proper_handler by the module runner (run_module), as a
\* whole: the call is synchronous and runs to its result or failure.
\* A call either repeats the request of the last call (a run of up to
\* MaxRun calls with one request) or starts a new run.  Every filesystem
\* is an initial state, so the filesystem a run of repeated calls leaves is
\* one a first call is also made from: a new request follows a single call
\* only, not a run of repeated ones.
Call(state, path, nested, cm) ==
    LET p == [path |-> path, state |-> state, nested |-> nested]
        same == run > 0 /\ p = params /\ cm = check_mode
        r == run_proper_handler(fs, p, cm)
    IN  /\ IF same THEN run < MaxRun ELSE run <= 1
        /\ fs' = r.fs
        /\ ret' = r.ret
        /\ params' = p
        /\ check_mode' = cm
        /\ pre' = fs
        /\ run' = IF same THEN run + 1 ELSE 1
        /\ first' = IF same THEN first ELSE r
        /\ UNCHANGED calls

CallFile == \E path \in Paths, nested \in BOOLEAN, cm \in BOOLEAN : Call(FILE, path, nested, cm)

CallDirectory == \E path \in Paths, nested \in BOOLEAN, cm \in BOOLEAN : Call(DIRECTORY, path, nested, cm)

CallAbsent == \E path \in Paths, nested \in BOOLEAN, cm \in BOOLEAN : Call(ABSENT, path, nested, cm)

Next == CallFile \/ CallDirectory \/ CallAbsent

Spec == Init /\ [][Next]_vars

(***************************************************************************)
(* Calls under an I/O error: as Spec, and the operating system may refuse  *)
(* the file creation of a normal-mode ensure_file.                         *)
(***************************************************************************)
CallFileIOError ==
    \E path \in Paths, nested \in BOOLEAN :
        LET p == [path |-> path, state |-> FILE, nested |-> nested]
            r == ensure_file_step(fs, path, nested, FALSE,
                                  get_current_state(fs, path), TRUE)
        IN  /\ run <= 1
            /\ r.ret.kind = "fail" /\ r.ret.msg[3] = "EIO"
            /\ fs' = r.fs
            /\ ret' = r.ret
            /\ params' = p
            /\ check_mode' = FALSE
            /\ pre' = fs
            /\ run' = 1
            /\ first' = r
            /\ UNCHANGED calls

NextIOError == CallFile \/ CallDirectory \/ CallAbsent \/ CallFileIOError

SpecIOError == Init /\ [][NextIOError]_vars

(***************************************************************************)
(* Two normal-mode calls for one path by independent processes.  A call    *)
(* takes two steps, between which the other call may act: it inspects the  *)
(* path (get_current_state), then does the rest of its ensure_* function.  *)
(* pre stays the filesystem the two calls started from.                    *)
(***************************************************************************)
Inspect(c) ==
    \E state \in State, path \in Paths, nested \in BOOLEAN :
        /\ calls[c].pc = "idle"
        /\ \A d \in Callers : calls[d].pc # "idle" => calls[d].params.path = path
        /\ calls' = [calls EXCEPT ![c] =
                        [pc |-> "inspected",
                         params |-> [path |-> path, state |-> state, nested |-> nested],
                         current_state |-> get_current_state(fs, path)]]
        /\ UNCHANGED <<fs, params, check_mode, ret, pre, run, first>>

\* The rest of the call of c, which asked for state.
Act(c, state, r) ==
    /\ calls[c].pc = "inspected"
    /\ calls[c].params.state = state
    /\ fs' = r.fs
    /\ calls' = [calls EXCEPT ![c] =
                    [pc |-> "done", params |-> calls[c].params,
                     current_state |-> calls[c].current_state, ret |-> r.ret]]
    /\ UNCHANGED <<params, check_mode, ret, pre, run, first>>

InspectStep == \E c \in Callers : Inspect(c)

FileStep ==
    \E c \in Callers :
        /\ calls[c].pc = "inspected"
        /\ Act(c, FILE, ensure_file_step(fs, calls[c].params.path, calls[c].params.nested,
                                         FALSE, calls[c].current_state, FALSE))

DirectoryStep ==
    \E c \in Callers :
        /\ calls[c].pc = "inspected"
        /\ Act(c, DIRECTORY, ensure_directory_step(fs, calls[c].params.path,
                                                   calls[c].params.nested, FALSE,
                                                   calls[c].current_state))

AbsentStep ==
    \E c \in Callers :
        /\ calls[c].pc = "inspected"
        /\ Act(c, ABSENT, ensure_absent_step(fs, calls[c].params.path, FALSE,
                                             calls[c].current_state))

NextRace == InspectStep \/ FileStep \/ DirectoryStep \/ AbsentStep

SpecRace == Init /\ [][NextRace]_vars

TypeOK ==
    /\ fs \in [Paths -> State] /\ WellFormed(fs)
    /\ pre \in [Paths -> State] /\ WellFormed(pre)
    /\ run \in 0..MaxRun
    /\ check_mode \in BOOLEAN
    /\ ret.kind \in {"none", "result", "fail"}

(***************************************************************************)
(* Properties.  They speak of the last call: its request (params,          *)
(* check_mode), the filesystem it started from (pre), the filesystem it    *)
(* left (fs) and what it ended in (ret).                                   *)
(***************************************************************************)
Called == run > 0
Normal == Called /\ ~check_mode
Returned == ret.kind = "result"
Failed == ret.kind = "fail"
path == params.path

\* The request's path was not in the desired state when the call started
\* and the desired state is one the operation creates or removes towards:
\* ABSENT before ensure_file / ensure_directory, present before ensure_absent.
WasToChange ==
    IF params.state = ABSENT THEN pre[path] # ABSENT ELSE pre[path] = ABSENT

\* C1 as stated: of two successive normal-mode calls with one request, the
\* first returns changed=true and the second changed=false.
C1_ChangedThenUnchanged ==
    (run = 2 /\ ~check_mode /\ first.ret.kind = "result")
        => (first.ret.changed /\ Returned /\ ~ret.changed)

\* C1 as amended: when the first of successive normal-mode calls with one
\* request returned a result, every later one returns changed=false; and a
\* call returns changed=true exactly when the path was ABSENT before it
\* (ensure_file, ensure_directory) or present before it (ensure_absent).
C1_SecondCallUnchanged ==
    /\ (Normal /\ Returned) => (ret.changed <=> WasToChange)
    /\ (run >= 2 /\ ~check_mode /\ first.ret.kind = "result")
           => (Returned /\ ~ret.changed)

C1_Witness ==
    /\ run = 2 /\ ~check_mode
    /\ first.ret.kind = "result" /\ first.ret.changed
    /\ Returned /\ ~ret.changed

\* C2: once a normal-mode call for state=file or state=directory returned a
\* result, every further call with the same request returns a result and
\* leaves the filesystem as the first call left it.
C2_RepeatedCallsChangeNothing ==
    (run >= 2 /\ ~check_mode /\ params.state \in {FILE, DIRECTORY}
              /\ first.ret.kind = "result")
        => (Returned /\ fs = first.fs)

C2_Witness ==
    /\ run >= 3 /\ ~check_mode /\ params.state \in {FILE, DIRECTORY}
    /\ first.ret.kind = "result" /\ first.ret.changed
    /\ Returned /\ fs = first.fs

\* C3 as stated: after any normal-mode call the path has the desired state,
\* unless a directory was asked for where a file is.
C3_AlwaysConverges ==
    (Normal /\ ~(params.state = DIRECTORY /\ pre[path] = FILE))
        => fs[path] = params.state

\* C3 as amended: after a normal-mode call that returned a result the path
\* has the desired state, unless a directory was asked for where a file is.
C3_ResultConverges ==
    (Normal /\ Returned /\ ~(params.state = DIRECTORY /\ pre[path] = FILE))
        => fs[path] = params.state

C3_Witness ==
    /\ Normal /\ Returned /\ ret.changed
    /\ pre[path] = FILE /\ params.state = ABSENT /\ fs[path] = ABSENT

\* C4: a call in check mode leaves the filesystem as it found it, whatever it
\* reports and whether it returns or fails.
C4_DryRunPurity == (Called /\ check_mode) => fs = pre

C4_Witness ==
    /\ Called /\ check_mode /\ params.state = DIRECTORY
    /\ Returned /\ ret.changed /\ fs = pre

\* C5: a normal-mode ensure_file with nested=false on an ABSENT path whose
\* parent directory is missing fails and creates nothing.
C5_FileNoNestedFails ==
    (Normal /\ params.state = FILE /\ ~params.nested /\ pre[path] = ABSENT
            /\ Len(path) >= 2 /\ pre[Parent(path)] = ABSENT)
        => (Failed /\ fs = pre)

\* C6: a normal-mode ensure_directory with nested=false on an ABSENT path
\* with a missing intermediate segment fails and leaves the filesystem
\* unchanged.
C6_DirNoNestedFails ==
    (Normal /\ params.state = DIRECTORY /\ ~params.nested /\ pre[path] = ABSENT
            /\ \E q \in Ancestors(path) : pre[q] = ABSENT)
        => (Failed /\ fs = pre)

C6_Witness ==
    /\ Normal /\ params.state = DIRECTORY /\ ~params.nested
    /\ Len(path) >= 3 /\ \A q \in Ancestors(path) : pre[q] = ABSENT
    /\ Failed /\ fs = pre

\* C7: a normal-mode ensure_file or ensure_directory with nested=true on an
\* ABSENT path whose existing ancestors are all directories returns
\* changed=true, every ancestor is a directory afterwards and the path has
\* the desired state.
C7_NestedCreatesAll ==
    (Normal /\ params.state \in {FILE, DIRECTORY} /\ params.nested
            /\ pre[path] = ABSENT
            /\ \A q \in Ancestors(path) : pre[q] \in {DIRECTORY, ABSENT})
        => /\ Returned /\ ret.changed
           /\ \A q \in Ancestors(path) : fs[q] = DIRECTORY
           /\ fs[path] = params.state

C7_Witness ==
    /\ Normal /\ params.state = FILE /\ params.nested
    /\ Len(path) >= 3 /\ \A q \in Ancestors(path) : pre[q] = ABSENT
    /\ Returned /\ ret.changed
    /\ \A q \in Ancestors(path) : fs[q] = DIRECTORY
    /\ fs[path] = FILE

\* C8: ensure_file on a path that is a DIRECTORY fails, with either value of
\* nested, in normal and in check mode, and changes nothing.
C8_FileOnDirectoryFails ==
    (Called /\ params.state = FILE /\ pre[path] = DIRECTORY)
        => (Failed /\ fs = pre)

C8_Witness ==
    /\ Called /\ params.state = FILE /\ pre[path] = DIRECTORY
    /\ check_mode /\ params.nested
    /\ \E q \in Descendants(path) : pre[q] # ABSENT
    /\ Failed /\ fs = pre

\* C9: a normal-mode ensure_absent on a FILE or a DIRECTORY returns
\* changed=true, leaves the path and everything below it ABSENT and every
\* ancestor directory in place.
C9_AbsentRemovesTree ==
    (Normal /\ params.state = ABSENT /\ pre[path] # ABSENT)
        => /\ Returned /\ ret.changed
           /\ fs[path] = ABSENT
           /\ \A q \in Descendants(path) : fs[q] = ABSENT
           /\ \A q \in Ancestors(path) : fs[q] = DIRECTORY

C9_Witness ==
    /\ Normal /\ params.state = ABSENT /\ pre[path] = DIRECTORY
    /\ Len(path) >= 2
    /\ \E q \in Descendants(path) : pre[q] # ABSENT
    /\ Returned /\ ret.changed
    /\ \A q \in Descendants(path) : fs[q] = ABSENT
    /\ \A q \in Ancestors(path) : fs[q] = DIRECTORY

\* C10: ensure_absent on an ABSENT path returns changed=false and changes
\* nothing, in normal and in check mode, also under missing segments.
C10_AbsentOnAbsent ==
    (Called /\ params.state = ABSENT /\ pre[path] = ABSENT)
        => (Returned /\ ~ret.changed /\ fs = pre)

C10_Witness ==
    /\ Called /\ params.state = ABSENT /\ check_mode
    /\ Len(path) >= 3 /\ \A q \in Ancestors(path) : pre[q] = ABSENT
    /\ pre[path] = ABSENT
    /\ Returned /\ ~ret.changed /\ fs = pre

\* The state field of one side of a diff is present.
HasState(side) == "state" \in DOMAIN side

\* C11: in every result both sides of the diff carry the input path; the
\* state fields are present on both sides or on neither, and present exactly
\* when the state before the call differs from the desired one, in which
\* case before.state is the state before and after.state the desired state.
C11_DiffShape ==
    (Called /\ Returned) =>
        /\ ret.diff.before.path = path
        /\ ret.diff.after.path = path
        /\ HasState(ret.diff.before) <=> HasState(ret.diff.after)
        /\ HasState(ret.diff.before) <=> pre[path] # params.state
        /\ HasState(ret.diff.before) =>
               /\ ret.diff.before.state = pre[path]
               /\ ret.diff.after.state = params.state

C11_Witness ==
    /\ Called /\ Returned
    /\ HasState(ret.diff.before) /\ HasState(ret.diff.after)
    /\ ret.diff.before.state = DIRECTORY /\ ret.diff.after.state = ABSENT
    /\ ret.diff.before.path = path /\ ret.diff.after.path = path

\* C12 as stated: in every result, changed is true exactly when the call
\* changed the filesystem.
C12_ChangedIffMutated ==
    (Called /\ Returned) => (ret.changed <=> fs # pre)

\* C12 as amended: in every result of a normal-mode call, changed is true
\* exactly when the call changed the filesystem; a check-mode result
\* reports changed=true although the filesystem is unchanged.
C12_NormalChangedIffMutated ==
    /\ (Normal /\ Returned) => (ret.changed <=> fs # pre)
    /\ (Called /\ check_mode /\ Returned) => (fs = pre /\ (ret.changed <=> WasToChange))

C12_Witness ==
    /\ Normal /\ Returned /\ ret.changed /\ fs # pre
    /\ params.state = DIRECTORY

\* C13: ensure_directory on a FILE returns changed=false without failing,
\* in normal and in check mode, leaves the filesystem as it was, and its
\* diff goes from file to directory.
C13_DirectoryOnFile ==
    (Called /\ params.state = DIRECTORY /\ pre[path] = FILE) =>
        /\ Returned /\ ~ret.changed
        /\ fs = pre
        /\ ret.diff = [before |-> [path |-> path, state |-> FILE],
                       after  |-> [path |-> path, state |-> DIRECTORY]]

C13_Witness ==
    /\ Called /\ params.state = DIRECTORY /\ pre[path] = FILE /\ check_mode
    /\ Returned /\ ~ret.changed /\ fs[path] = FILE
    /\ ret.diff.before.state = FILE /\ ret.diff.after.state = DIRECTORY

\* C14: in check mode ensure_file and ensure_directory on an ABSENT path
\* return changed=true for every filesystem and either value of nested, also
\* where the same request fails in normal mode.
C14_CheckModeOptimism ==
    (Called /\ check_mode /\ params.state \in {FILE, DIRECTORY} /\ pre[path] = ABSENT)
        => (Returned /\ ret.changed)

C14_Witness ==
    /\ Called /\ check_mode /\ params.state = FILE /\ ~params.nested
    /\ pre[path] = ABSENT
    /\ Returned /\ ret.changed
    /\ run_proper_handler(pre, params, FALSE).ret.kind = "fail"

\* What the operation the request names does from the filesystem the call
\* started from.
NamedOperation ==
    IF params.state = FILE THEN ensure_file(pre, path, params.nested, check_mode)
    ELSE IF params.state = DIRECTORY THEN ensure_directory(pre, path, params.nested, check_mode)
    ELSE ensure_absent(pre, path, check_mode)

\* C15: a call for file, directory or absent does what the one operation of
\* that name does and nothing else; it ends either in a failure or in a
\* result, and a result has exactly the fields path (the input path),
\* changed and diff.
C15_OneOperationOneOutcome ==
    Called =>
        /\ ret = NamedOperation.ret /\ fs = NamedOperation.fs
        /\ Returned \/ Failed
        /\ Returned => /\ DOMAIN ret = {"kind", "path", "changed", "diff"}
                       /\ ret.path = path
                       /\ ret.changed \in BOOLEAN
                       /\ DOMAIN ret.diff = {"before", "after"}
        /\ Failed => DOMAIN ret = {"kind", "msg"}

C15_Witness ==
    /\ Called /\ params.state = DIRECTORY /\ Returned
    /\ DOMAIN ret = {"kind", "path", "changed", "diff"}
    /\ ret.path = path /\ ret.changed

\* C18: when a normal-mode call returns a result, the check-mode call from
\* the same filesystem returns a result with the same changed and diff; and
\* when a check-mode call returns changed=false, the normal-mode call from
\* the same filesystem changes nothing.
C18_CheckModePredicts ==
    /\ (Normal /\ Returned) =>
           LET dry == run_proper_handler(pre, params, TRUE).ret
           IN  /\ dry.kind = "result"
               /\ dry.changed = ret.changed
               /\ dry.diff = ret.diff
    /\ (Called /\ check_mode /\ Returned /\ ~ret.changed) =>
           run_proper_handler(pre, params, FALSE).fs = pre

C18_Witness ==
    /\ Normal /\ Returned /\ ret.changed /\ fs # pre
    /\ run_proper_handler(pre, params, TRUE).ret.changed
    /\ run_proper_handler(pre, params, TRUE).fs = pre

\* The paths that are neither the request's path, nor above it, nor below it.
Unrelated == {q \in Paths : ~IsPrefix(q, path) /\ ~IsPrefix(path, q)}

\* C19: a call changes no path unrelated to its path; ensure_file and
\* ensure_directory remove or retype no existing entry; ensure_absent
\* creates no entry.
C19_Frame ==
    Called =>
        /\ \A q \in Unrelated : fs[q] = pre[q]
        /\ params.state \in {FILE, DIRECTORY} =>
               \A q \in Paths : pre[q] # ABSENT => fs[q] = pre[q]
        /\ params.state = ABSENT =>
               \A q \in Paths : pre[q] = ABSENT => fs[q] = ABSENT

C19_Witness ==
    /\ Normal /\ params.state = ABSENT /\ pre[path] = DIRECTORY /\ fs # pre
    /\ \E q \in Unrelated : Len(q) = Len(path) /\ pre[q] # ABSENT /\ fs[q] = pre[q]

(***************************************************************************)
(* Properties of two calls that race (SpecRace).                           *)
(***************************************************************************)
CallReturned(c) == calls[c].ret.kind = "result"
CallFailed(c) == calls[c].ret.kind = "fail"

\* Both calls are over, both asked for state on one path, and each
\* inspected the path when it was in one of the states seen.
Raced(state, seen) ==
    \A c \in Callers :
        /\ calls[c].pc = "done"
        /\ calls[c].params.state = state
        /\ calls[c].current_state \in seen

RacePath == calls[1].params.path

\* What the call of c does when it runs alone from the starting filesystem.
Alone(c) == run_proper_handler(pre, calls[c].params, FALSE)

\* C16 as stated: when two ensure_directory calls both inspect the path as
\* ABSENT, neither fails and the path ends as a DIRECTORY.
C16_NeitherCreatorFails ==
    Raced(DIRECTORY, {ABSENT}) =>
        /\ \A c \in Callers : CallReturned(c)
        /\ fs[RacePath] = DIRECTORY

\* C16 as amended: when two ensure_directory calls both inspect the path as
\* ABSENT, a call fails only if it also fails when it runs alone from the
\* starting filesystem (never because the other call created the
\* directory); a call that returns reports changed=true and the path ends
\* as a DIRECTORY.
C16_NoFailureFromRace ==
    Raced(DIRECTORY, {ABSENT}) =>
        \A c \in Callers :
            /\ CallFailed(c) => Alone(c).ret.kind = "fail"
            /\ CallReturned(c) => (calls[c].ret.changed /\ fs[RacePath] = DIRECTORY)

C16_Witness ==
    /\ Raced(DIRECTORY, {ABSENT})
    /\ \A c \in Callers : CallReturned(c) /\ calls[c].ret.changed
    /\ Len(RacePath) >= 2
    /\ fs[RacePath] = DIRECTORY

\* C17 as stated: when two ensure_absent calls both inspect the path as a
\* FILE or as a DIRECTORY, neither fails and the path ends ABSENT.
C17_NeitherRemoverFails ==
    Raced(ABSENT, {FILE, DIRECTORY}) =>
        /\ \A c \in Callers : CallReturned(c)
        /\ fs[RacePath] = ABSENT

\* C17 as amended: the path ends ABSENT; for a FILE neither call fails and
\* both report changed=true; for a DIRECTORY one call returns changed=true
\* and the other, which finds the directory gone, fails in rmtree.
C17_OnlyFileRaceIsBenign ==
    Raced(ABSENT, {FILE, DIRECTORY}) =>
        /\ fs[RacePath] = ABSENT
        /\ pre[RacePath] = FILE =>
               \A c \in Callers : CallReturned(c) /\ calls[c].ret.changed
        /\ pre[RacePath] = DIRECTORY =>
               \E c \in Callers :
                   /\ CallReturned(c) /\ calls[c].ret.changed
                   /\ \A d \in Callers \ {c} :
                          /\ CallFailed(d)
                          /\ calls[d].ret.msg = <<"delete directory", RacePath, "ENOENT">>

C17_Witness ==
    /\ Raced(ABSENT, {FILE})
    /\ pre[RacePath] = FILE
    /\ \A c \in Callers : CallReturned(c) /\ calls[c].ret.changed
    /\ fs[RacePath] = ABSENT

(***************************************************************************)
(* Properties of calls under an I/O error (SpecIOError).                   *)
(***************************************************************************)
IOError == Failed /\ ret.msg[3] = "EIO"

\* C20 as stated: a call that ends in a failure leaves the filesystem as it
\* was before the call.
C20_FailureChangesNothing == (Called /\ Failed) => fs = pre

\* C20 as amended: a call that fails because of what is on disk leaves the
\* filesystem as it was; an ensure_file call whose file creation fails after
\* its parent-directory step keeps the directories that step created: the
\* path stays ABSENT and nothing but missing ancestors of the path, now
\* directories, has changed.
C20_FailureKeepsParents ==
    (Called /\ Failed) =>
        IF IOError
        THEN /\ fs[path] = ABSENT
             /\ \A q \in Paths :
                    fs[q] # pre[q] =>
                        (q \in Ancestors(path) /\ pre[q] = ABSENT /\ fs[q] = DIRECTORY)
        ELSE fs = pre

C20_Witness ==
    /\ Called /\ IOError /\ params.state = FILE /\ params.nested
    /\ Len(path) >= 3
    /\ \A q \in Ancestors(path) : pre[q] = ABSENT /\ fs[q] = DIRECTORY
    /\ fs[path] = ABSENT

====
